---- MODULE Spec2Model ----
(***************************************************************************)
(* Version-grouping and version-comparison engine of the git rescue tool:  *)
(* the oracle-calling contract (rate limiter, retry, streaming), the three *)
(* analyzers' response parsing, and the iterative clustering loop.         *)
(*                                                                         *)
(* A FileVersion is identified by its position in the loaded pool (its     *)
(* original_hash; hashes are pairwise distinct).  suggested_filename       *)
(* embeds the hash prefix (ai_analyzer.generate_new_filename), so it is    *)
(* modelled as the same identifier; UnknownName is a filename no pool file *)
(* carries.                                                                *)
(***************************************************************************)
EXTENDS Integers, Sequences, FiniteSets, TLC

\* ---------------------------------------------------------------- bounds
MaxFiles == 3         \* size of the loaded pool in the iterative run
MaxSimilar == 2       \* length of the similar_files list of a seed response
MaxEntries == 2       \* length of the files array of a comparison response
MaxSortIndex == 2     \* largest sort_index a comparison response carries
RpmLimit == 2         \* the configured rpm_limit
NumWorkers == 2       \* comparison worker threads of compare_versions
MaxTicks == 3         \* clock advances in a run
MaxCalls == 4         \* calls of _enforce_rate_limit in a run
MaxRetries == 3       \* largest max_retries argument (the default is 3)
MaxChunks == 3        \* chunks of a streamed response
MaxTokens == 3        \* indices and group breaks of a batch grouping response
MaxParts == 2         \* suffixes appended to the stem of a filename
CmpMaxEntries == 3    \* files array of a response given to parse_response alone
CmpMaxSortIndex == 3  \* largest sort_index of such a response
MaxPool == 15         \* size of the pool in the runs that reach the iteration ceiling
MaxGroups == 2        \* groups compare_versions loads
MaxContent == 4       \* characters of a file's content
MaxContentLength == 3 \* max_content_length of the analysis configuration

\* ------------------------------------------------------ program constants
MaxIterations == 10   \* main.py: if iteration > 10: break
Window == 60          \* ai_analyzer.py: window = 60
MarginDen == 20       \* ai_analyzer.py: the 0.05 s margin is 1/20 s
RetryDelay == 2       \* ai_base.py: time.sleep(2)

\* Python's None where a FileVersion is expected (files are 1..n)
NoFile == 0
\* a filename matching no FileVersion
UnknownName == 0
\* An optional value (None or a value) is a sequence of length 0 or 1.
None == <<>>
Some(x) == <<x>>

VARIABLES
    versions,            \* iterative_analysis: the loaded pool (list of files)
    remaining_versions,  \* iterative_analysis: files not yet grouped
    processed_groups,    \* iterative_analysis: list of VersionGroup
    misjudged,           \* FileVersion.misjudged, per file
    misjudged_files,     \* iterative_analysis: pool-level misjudged list
    iteration,           \* iterative_analysis: loop counter
    it_pc,               \* iterative_analysis: control position
    group_versions,      \* iterative_analysis: the group awaiting comparison
    report,              \* the report written by iterative_analysis
    seed_calls,          \* iterative_grouping_analyzer.analyze calls made so far
    comparison_calls,    \* version_comparison_analyzer.analyze calls made so far
    clock,               \* time.time(), in seconds
    ticks,               \* number of clock advances so far
    request_timestamps,  \* AIAnalyzer._request_timestamps, per AIAnalyzer
    issued,              \* every timestamp recorded so far, per AIAnalyzer
    rl_pc,               \* _enforce_rate_limit: position of each caller
    rl_an,               \* _enforce_rate_limit: the AIAnalyzer (self) of each caller
    rl_now,              \* _enforce_rate_limit: local now of each caller
    rl_wake,             \* end of the caller's time.sleep, in 1/20 s
    rl_waited,           \* whether the caller's current call slept
    rl_calls,            \* number of calls begun
    rt_pc,               \* call_ai_with_retry: control position
    rt_max_retries,      \* call_ai_with_retry: the max_retries argument
    rt_attempt,          \* call_ai_with_retry: loop variable attempt
    rt_requests,         \* number of chat_complete requests issued
    rt_log,              \* outcome of each request, in order
    rt_slept,            \* seconds slept between attempts
    rt_result,           \* what call_ai_with_retry returned or raised
    st_pc,               \* call_ai_with_stream: control position
    st_requests,         \* number of streaming requests issued
    st_chunks,           \* chunks received so far, in arrival order
    full_response,       \* chat_complete_stream: the text collected so far
    st_result,           \* what call_ai_with_stream returned or raised
    bg_names,            \* batch grouping: ai_name of each pool file, in pool order
    bg_pc,               \* batch grouping: control position
    bg_fallback,         \* whether parse_response took the except branch
    bg_groups,           \* the list of VersionGroup parse_response returned
    nm_pc,               \* _normalize_filename: how often it has been applied
    nm_input,            \* the filename given to _normalize_filename
    nm_once,             \* _normalize_filename(nm_input)
    nm_twice,            \* _normalize_filename(nm_once)
    cp_pc,               \* comparison parse_response: control position
    cp_versions,         \* the versions argument (the group, in its order)
    cp_response,         \* the response argument
    cp_flags,            \* FileVersion.misjudged of the group's files
    cp_result,           \* the dictionary parse_response returned
    cv_pc,               \* compare_versions: control position of the main thread
    cv_groups,           \* compare_versions: groups (list of VersionGroup)
    cv_oracle,           \* what the oracle does for each group's comparison
    cv_task,             \* state of each submitted analyze_group task
    cv_future,           \* analysis_result each finished task returned
    cv_flags,            \* FileVersion.misjudged of the files in all_versions
    cv_report,           \* version_results written by compare_versions
    pv_pc,               \* get_content_preview: control position
    pv_content,          \* get_content_preview: content
    pv_length,           \* get_content_preview: preview_length
    pv_preview           \* the preview get_content_preview returned

iterVars == <<versions, remaining_versions, processed_groups, misjudged,
              misjudged_files, iteration, it_pc, group_versions, report, seed_calls,
              comparison_calls>>

rateVars == <<clock, ticks, request_timestamps, issued, rl_pc, rl_an, rl_now,
              rl_wake, rl_waited, rl_calls>>

retryVars == <<rt_pc, rt_max_retries, rt_attempt, rt_requests, rt_log, rt_slept,
               rt_result>>

streamVars == <<st_pc, st_requests, st_chunks, full_response, st_result>>

batchVars == <<bg_names, bg_pc, bg_fallback, bg_groups>>

normVars == <<nm_pc, nm_input, nm_once, nm_twice>>

cmpVars == <<cp_pc, cp_versions, cp_response, cp_flags, cp_result>>

compareVars == <<cv_pc, cv_groups, cv_oracle, cv_task, cv_future, cv_flags, cv_report>>

previewVars == <<pv_pc, pv_content, pv_length, pv_preview>>

vars == <<iterVars, rateVars, retryVars, streamVars, batchVars, normVars, cmpVars,
          compareVars, previewVars>>

notIter == <<rateVars, retryVars, streamVars, batchVars, normVars,
        cmpVars, compareVars, previewVars>>
notRate == <<iterVars, retryVars, streamVars, batchVars, normVars,
        cmpVars, compareVars, previewVars>>
notRetry == <<iterVars, rateVars, streamVars, batchVars, normVars,
        cmpVars, compareVars, previewVars>>
notStream == <<iterVars, rateVars, retryVars, batchVars, normVars,
        cmpVars, compareVars, previewVars>>
notBatch == <<iterVars, rateVars, retryVars, streamVars, normVars,
        cmpVars, compareVars, previewVars>>
notNorm == <<iterVars, rateVars, retryVars, streamVars, batchVars,
        cmpVars, compareVars, previewVars>>
notCmp == <<iterVars, rateVars, retryVars, streamVars, batchVars, normVars,
        compareVars, previewVars>>
notCompare == <<iterVars, rateVars, retryVars, streamVars, batchVars, normVars,
        cmpVars, previewVars>>
notPreview == <<iterVars, rateVars, retryVars, streamVars, batchVars, normVars,
        cmpVars, compareVars>>

\* iterative_analysis before it is called / the parts of the state a
\* specification of another component leaves alone
IterIdle ==
    /\ versions = <<>>
    /\ remaining_versions = <<>>
    /\ processed_groups = <<>>
    /\ misjudged = [f \in 1..MaxFiles |-> FALSE]
    /\ misjudged_files = <<>>
    /\ iteration = 1
    /\ it_pc = "idle"
    /\ group_versions = <<>>
    /\ report = None
    /\ seed_calls = 0
    /\ comparison_calls = 0

RetryIdle ==
    /\ rt_pc = "idle"
    /\ rt_max_retries = 0
    /\ rt_attempt = 0
    /\ rt_requests = 0
    /\ rt_log = <<>>
    /\ rt_slept = 0
    /\ rt_result = [status |-> "none", value |-> ""]

BatchIdle ==
    /\ bg_names = <<>>
    /\ bg_pc = "idle"
    /\ bg_fallback = FALSE
    /\ bg_groups = <<>>

PreviewIdle ==
    /\ pv_pc = "idle"
    /\ pv_content = <<>>
    /\ pv_length = 0
    /\ pv_preview = <<>>

CompareIdle ==
    /\ cv_pc = "idle"
    /\ cv_groups = <<>>
    /\ cv_oracle = <<>>
    /\ cv_task = <<>>
    /\ cv_future = <<>>
    /\ cv_flags = <<>>
    /\ cv_report = None

CmpIdle ==
    /\ cp_pc = "idle"
    /\ cp_versions = <<>>
    /\ cp_response = <<>>
    /\ cp_flags = <<>>
    /\ cp_result = <<>>

NormIdle ==
    /\ nm_pc = "idle"
    /\ nm_input = <<>>
    /\ nm_once = <<>>
    /\ nm_twice = <<>>

StreamIdle ==
    /\ st_pc = "idle"
    /\ st_requests = 0
    /\ st_chunks = <<>>
    /\ full_response = <<>>
    /\ st_result = [status |-> "none", text |-> None]

\* ------------------------------------------------------------- sequences
Range(s) == {s[i] : i \in DOMAIN s}

SeqsUpTo(S, n) == UNION {[1..k -> S] : k \in 0..n}

Count(s, x) == Cardinality({i \in DOMAIN s : s[i] = x})

Contains(s, x) == \E i \in DOMAIN s : s[i] = x

RECURSIVE Flatten(_)
Flatten(ss) == IF ss = <<>> THEN <<>> ELSE Head(ss) \o Flatten(Tail(ss))

\* ----------------------------------------- VersionComparisonAnalyzer
\* for v in versions: if v.suggested_filename == filename: version = v; break
FindVersion(vs, filename) ==
    IF \E i \in DOMAIN vs : vs[i] = filename
    THEN vs[CHOOSE i \in DOMAIN vs :
                /\ vs[i] = filename
                /\ \A j \in 1..(i - 1) : vs[j] # filename]
    ELSE NoFile

\* file_data.get("sort_index", 1)
GetSortIndex(file_data) ==
    IF file_data.sort_index = None THEN 1 ELSE file_data.sort_index[1]

\* while len(sorted_versions) < sort_index: sorted_versions.append(None)
PadTo(sorted, sort_index) ==
    IF Len(sorted) < sort_index
    THEN sorted \o [k \in 1..(sort_index - Len(sorted)) |-> NoFile]
    ELSE sorted

\* sorted_versions[sort_index - 1] = version, with Python's list indexing:
\* a negative index counts from the end, an index outside the list raises
\* IndexError (reported here as None).
PlaceVersion(sorted, sort_index, version) ==
    LET padded == PadTo(sorted, sort_index)
        pos == IF sort_index >= 1 THEN sort_index ELSE Len(padded) + sort_index
    IN  IF pos >= 1 /\ pos <= Len(padded)
        THEN Some([padded EXCEPT ![pos] = version])
        ELSE None

\* One pass of the loop over files_data.  st carries the file flags, the
\* file_analysis_list, the sparse sorted_versions and whether an exception
\* has been raised (which ends the loop).
CmpEntry(st, file_data, vs, group_misjudged) ==
    LET version == FindVersion(vs, file_data.filename)
        mis == file_data.misjudged \/ group_misjudged
        sort_index == GetSortIndex(file_data)
        placed == PlaceVersion(st.sorted, sort_index, version)
        flagged == [st.flags EXCEPT ![version] = mis]
        fal == Append(st.fal, [file |-> version, sort_index |-> sort_index,
                               misjudged |-> mis])
    IN  IF st.raised \/ version = NoFile THEN st
        ELSE IF placed = None
        THEN [st EXCEPT !.flags = flagged, !.fal = fal, !.raised = TRUE]
        ELSE [st EXCEPT !.flags = flagged, !.fal = fal, !.sorted = placed[1]]

RECURSIVE CmpLoop(_, _, _, _)
CmpLoop(st, files_data, vs, group_misjudged) ==
    IF files_data = <<>> THEN st
    ELSE CmpLoop(CmpEntry(st, Head(files_data), vs, group_misjudged),
                 Tail(files_data), vs, group_misjudged)

\* the list left as it is, gaps included
CompactNothing(sorted) == sorted

\* sorted_versions = [v for v in sorted_versions if v is not None]
Compact(sorted) == SelectSeq(sorted, LAMBDA v : v # NoFile)

\* the synthesized analysis numbered from 0
DefaultAnalysisZeroBased(vs) ==
    [i \in DOMAIN vs |-> [file |-> vs[i], sort_index |-> i - 1, misjudged |-> FALSE]]

\* the synthesized per-file analysis of the degraded outcome
DefaultAnalysis(vs) ==
    [i \in DOMAIN vs |-> [file |-> vs[i], sort_index |-> i, misjudged |-> FALSE]]

\* the failure result without the group flagged for review
FailureResultUnflagged(response, vs) ==
    [success |-> FALSE, sorted_versions |-> vs, file_analysis_list |-> <<>>,
     group_misjudged |-> FALSE, raw_response |-> response]

\* the dictionary the except branch returns (443-451)
FailureResult(response, vs) ==
    [success |-> FALSE, sorted_versions |-> vs, file_analysis_list |-> <<>>,
     group_misjudged |-> TRUE, raw_response |-> response]

\* VersionComparisonAnalyzer.parse_response: the result dictionary and the
\* file flags it leaves behind.
ParseComparison(response, vs, flags) ==
    IF ~response.parses
    THEN [flags |-> flags, result |-> FailureResult(response, vs)]
    ELSE
    LET st == CmpLoop([flags |-> flags, fal |-> <<>>, sorted |-> <<>>,
                       raised |-> FALSE],
                      response.files, vs, response.group_misjudged)
        compacted == Compact(st.sorted)
    IN  IF st.raised
        THEN [flags |-> st.flags, result |-> FailureResult(response, vs)]
        ELSE IF compacted = <<>>
        THEN [flags |-> st.flags,
              result |-> [success |-> TRUE, sorted_versions |-> vs,
                          file_analysis_list |-> DefaultAnalysis(vs),
                          group_misjudged |-> response.group_misjudged,
                          raw_response |-> response]]
        ELSE [flags |-> st.flags,
              result |-> [success |-> TRUE, sorted_versions |-> compacted,
                          file_analysis_list |-> st.fal,
                          group_misjudged |-> response.group_misjudged,
                          raw_response |-> response]]

\* The comparison responses the oracle can return for a pool of n files.
SortIndexValues == {Some(k) : k \in 0..MaxSortIndex} \cup {None}

FileEntries(n) ==
    [filename : (1..n) \cup {UnknownName}, sort_index : SortIndexValues,
     misjudged : BOOLEAN]

UnparseableComparison ==
    [parses |-> FALSE, group_misjudged |-> FALSE, files |-> <<>>]

ComparisonResponses(n) ==
    {UnparseableComparison} \cup
    [parses : {TRUE}, group_misjudged : BOOLEAN,
     files : SeqsUpTo(FileEntries(n), MaxEntries)]

\* ----------------------------------------- IterativeGroupingAnalyzer
\* for idx in similar_indices: if 1 <= idx <= len(candidate_versions): append
RECURSIVE ResolveSimilar(_, _)
ResolveSimilar(similar_indices, candidate_versions) ==
    IF similar_indices = <<>> THEN <<>>
    ELSE LET idx == Head(similar_indices)
             rest == ResolveSimilar(Tail(similar_indices), candidate_versions)
         IN  IF 1 <= idx /\ idx <= Len(candidate_versions)
             THEN <<candidate_versions[idx]>> \o rest
             ELSE rest

\* unparseable text answered with the first candidate
ParseSimilarFirstCandidate(response, candidate_versions) ==
    IF ~response.parses THEN <<candidate_versions[1]>>
    ELSE ResolveSimilar(response.similar_files, candidate_versions)

\* IterativeGroupingAnalyzer.parse_response
ParseSimilar(response, candidate_versions) ==
    IF ~response.parses THEN <<>>
    ELSE ResolveSimilar(response.similar_files, candidate_versions)

\* The seed responses: unparseable text, or a similar_files list whose
\* indices may repeat and may lie outside 1..len(candidates).
UnparseableSeed == [parses |-> FALSE, similar_files |-> <<>>]

SeedResponses(n) ==
    {UnparseableSeed} \cup [parses : {TRUE}, similar_files : SeqsUpTo(0..n, MaxSimilar)]

\* ------------------------------------------- AIAnalyzer._enforce_rate_limit
\* One AIAnalyzer is constructed by each analysis class (AIAnalysisBase.__init__),
\* and setup_analyzers constructs the three analysis classes.
Analyzers == {"batch", "iterative", "comparison"}

\* Callers: the orchestrator's own thread and the comparison worker threads.
MainThread == 0
Workers == 1..NumWorkers
Threads == {MainThread} \cup Workers

\* The clock advances by half a window or a second more, so that timestamps
\* exactly one window old and just older both occur.
TickSteps == {Window \div 2, Window \div 2 + 1}

RateIdle ==
    /\ clock = 0
    /\ ticks = 0
    /\ request_timestamps = [a \in Analyzers |-> <<>>]
    /\ issued = [a \in Analyzers |-> <<>>]
    /\ rl_pc = [t \in Threads |-> "idle"]
    /\ rl_an = [t \in Threads |-> "comparison"]
    /\ rl_now = [t \in Threads |-> 0]
    /\ rl_wake = [t \in Threads |-> 0]
    /\ rl_waited = [t \in Threads |-> FALSE]
    /\ rl_calls = 0

RateInit == RateIdle /\ IterIdle /\ RetryIdle /\ StreamIdle /\ BatchIdle /\ NormIdle /\ CmpIdle /\ CompareIdle /\ PreviewIdle

\* now = time.time(); window = 60
RLEnter(t, a) ==
    /\ rl_pc[t] = "idle"
    /\ rl_calls < MaxCalls
    /\ rl_calls' = rl_calls + 1
    /\ rl_an' = [rl_an EXCEPT ![t] = a]
    /\ rl_now' = [rl_now EXCEPT ![t] = clock]
    /\ rl_waited' = [rl_waited EXCEPT ![t] = FALSE]
    /\ rl_pc' = [rl_pc EXCEPT ![t] = "trim"]
    /\ UNCHANGED <<clock, ticks, request_timestamps, issued, rl_wake>>
    /\ UNCHANGED notRate

\* while self._request_timestamps and now - self._request_timestamps[0] > window
Expired(t) ==
    /\ request_timestamps[rl_an[t]] # <<>>
    /\ rl_now[t] - Head(request_timestamps[rl_an[t]]) > Window

RLTrimTest(t) ==
    /\ rl_pc[t] = "trim"
    /\ rl_pc' = [rl_pc EXCEPT ![t] = IF Expired(t) THEN "pop" ELSE "check"]
    /\ UNCHANGED <<clock, ticks, request_timestamps, issued, rl_an, rl_now,
                   rl_wake, rl_waited, rl_calls>>
    /\ UNCHANGED notRate

\* self._request_timestamps.popleft(); on an empty deque it raises IndexError,
\* which ends the call without a recorded timestamp
RLPop(t) ==
    /\ rl_pc[t] = "pop"
    /\ IF request_timestamps[rl_an[t]] = <<>>
       THEN /\ rl_pc' = [rl_pc EXCEPT ![t] = "idle"]
            /\ rl_now' = [rl_now EXCEPT ![t] = 0]
            /\ UNCHANGED request_timestamps
       ELSE /\ request_timestamps' =
                  [request_timestamps EXCEPT ![rl_an[t]] = Tail(@)]
            /\ rl_pc' = [rl_pc EXCEPT ![t] = "trim"]
            /\ UNCHANGED rl_now
    /\ UNCHANGED <<clock, ticks, issued, rl_an, rl_wake, rl_waited, rl_calls>>
    /\ UNCHANGED notRate

\* the capacity test admitting one request too many
AtLimitOffByOne(a) == Len(request_timestamps[a]) > RpmLimit

\* if len(self._request_timestamps) >= self._rpm_limit
AtLimit(a) == Len(request_timestamps[a]) >= RpmLimit

RLCheck(t) ==
    /\ rl_pc[t] = "check"
    /\ rl_pc' = [rl_pc EXCEPT ![t] = IF AtLimit(rl_an[t]) THEN "full" ELSE "record"]
    /\ UNCHANGED <<clock, ticks, request_timestamps, issued, rl_an, rl_now,
                   rl_wake, rl_waited, rl_calls>>
    /\ UNCHANGED notRate

\* sleep_time = window - (now - self._request_timestamps[0]) + 0.05, in 1/20 s
SleepTime20(t) ==
    MarginDen * (Window - (rl_now[t] - Head(request_timestamps[rl_an[t]]))) + 1

\* time.sleep(sleep_time) begins; reading [0] of an empty deque raises
RLSleep(t) ==
    /\ rl_pc[t] = "full"
    /\ IF request_timestamps[rl_an[t]] = <<>>
       THEN /\ rl_pc' = [rl_pc EXCEPT ![t] = "idle"]
            /\ rl_now' = [rl_now EXCEPT ![t] = 0]
            /\ UNCHANGED <<rl_wake, rl_waited>>
       ELSE /\ rl_wake' = [rl_wake EXCEPT ![t] = MarginDen * clock + SleepTime20(t)]
            /\ rl_waited' = [rl_waited EXCEPT ![t] = TRUE]
            /\ rl_pc' = [rl_pc EXCEPT ![t] = "sleeping"]
            /\ UNCHANGED rl_now
    /\ UNCHANGED <<clock, ticks, request_timestamps, issued, rl_an, rl_calls>>
    /\ UNCHANGED notRate

\* time.sleep returns once the sleep time has elapsed
RLWake(t) ==
    /\ rl_pc[t] = "sleeping"
    /\ MarginDen * clock >= rl_wake[t]
    /\ rl_pc' = [rl_pc EXCEPT ![t] = "record"]
    /\ UNCHANGED <<clock, ticks, request_timestamps, issued, rl_an, rl_now,
                   rl_wake, rl_waited, rl_calls>>
    /\ UNCHANGED notRate

\* self._request_timestamps.append(time.time()); the request is then issued.
\* The call returns and its locals are gone.
RLRecord(t) ==
    /\ rl_pc[t] = "record"
    /\ request_timestamps' = [request_timestamps EXCEPT ![rl_an[t]] = Append(@, clock)]
    /\ issued' = [issued EXCEPT ![rl_an[t]] = Append(@, clock)]
    /\ rl_pc' = [rl_pc EXCEPT ![t] = "idle"]
    /\ rl_now' = [rl_now EXCEPT ![t] = 0]
    /\ rl_wake' = [rl_wake EXCEPT ![t] = 0]
    /\ rl_waited' = [rl_waited EXCEPT ![t] = FALSE]
    /\ UNCHANGED <<clock, ticks, rl_an, rl_calls>>
    /\ UNCHANGED notRate

Tick ==
    /\ ticks < MaxTicks
    /\ \E d \in TickSteps : clock' = clock + d
    /\ ticks' = ticks + 1
    /\ UNCHANGED <<request_timestamps, issued, rl_pc, rl_an, rl_now, rl_wake,
                   rl_waited, rl_calls>>
    /\ UNCHANGED notRate

RLStep(t) ==
    \/ RLTrimTest(t)
    \/ RLPop(t)
    \/ RLCheck(t)
    \/ RLSleep(t)
    \/ RLWake(t)
    \/ RLRecord(t)

\* compare_versions: the worker threads call through the one AIAnalyzer of
\* version_comparison_analyzer (main.py 319, 336-341)
RateNextPar ==
    \/ \E t \in Workers : RLEnter(t, "comparison")
    \/ \E t \in Workers : RLStep(t)
    \/ Tick

SpecRatePar == RateInit /\ [][RateNextPar]_vars

\* The orchestrator's thread alone calls through the analyzers one call
\* after the other: iterative_analysis makes a seed-grouping call and then,
\* for a group it formed, a comparison call (main.py 474, 494)
SeqCallable(a) ==
    \/ a = "iterative"
    \/ a = "comparison" /\ rl_calls > 0 /\ rl_an[MainThread] = "iterative"

RateNextSeq ==
    \/ \E a \in Analyzers : SeqCallable(a) /\ RLEnter(MainThread, a)
    \/ RLStep(MainThread)
    \/ Tick

SpecRateSeq == RateInit /\ [][RateNextSeq]_vars

\* Time goes on while a caller is inside time.sleep
SleepElapses ==
    /\ \E t \in Threads : rl_pc[t] = "sleeping" /\ MarginDen * clock < rl_wake[t]
    /\ \E d \in TickSteps : clock' = clock + d
    /\ UNCHANGED <<ticks, request_timestamps, issued, rl_pc, rl_an, rl_now, rl_wake,
                   rl_waited, rl_calls>>
    /\ UNCHANGED notRate

RateNextLive ==
    \/ \E a \in Analyzers : SeqCallable(a) /\ RLEnter(MainThread, a)
    \/ RLStep(MainThread)
    \/ Tick
    \/ SleepElapses

\* The single caller under the scheduling the interpreter gives it: a thread
\* inside _enforce_rate_limit goes on running, and time.sleep returns.
SpecRateLive == RateInit /\ [][RateNextLive]_vars /\ WF_vars(RLStep(MainThread)) /\ WF_vars(SleepElapses)

\* ------------------------------------------------ claims on the rate limiter
InWindow(ts, end) == end - Window < ts /\ ts <= end

WindowCount(a, end) ==
    Cardinality({i \in DOMAIN issued[a] : InWindow(issued[a][i], end)})

\* C3: in every rolling 60-second window the number of requests whose
\* timestamps _enforce_rate_limit recorded on the comparison AIAnalyzer is
\* at most rpm_limit, whatever the interleaving of the worker threads.
C3_RateBound ==
    \A i \in DOMAIN issued["comparison"] :
        WindowCount("comparison", issued["comparison"][i]) <= RpmLimit

\* C4: trim, capacity check and append are one atomic step: no two callers
\* are both past the capacity check without having waited, about to record,
\* when the window has fewer than two free slots.
C4_AtomicAdmission ==
    \A t1, t2 \in Threads :
        (/\ t1 # t2
         /\ rl_an[t1] = rl_an[t2]
         /\ rl_pc[t1] = "record" /\ ~rl_waited[t1]
         /\ rl_pc[t2] = "record" /\ ~rl_waited[t2])
        => Len(request_timestamps[rl_an[t1]]) + 2 <= RpmLimit

TotalWindowCount(end) ==
    Cardinality({<<a, i>> \in Analyzers \X (1..MaxCalls) :
                    i \in DOMAIN issued[a] /\ InWindow(issued[a][i], end)})

\* C5: the window is one state shared by the three analyzers: the requests
\* issued through all of them together number at most rpm_limit in every
\* rolling 60-second window.
C5_SharedWindow ==
    \A a \in Analyzers : \A i \in DOMAIN issued[a] :
        TotalWindowCount(issued[a][i]) <= RpmLimit

\* ------------------------------------------ AIAnalysisBase.call_ai_with_retry
\* What one chat_complete request can do: deliver a message with content,
\* deliver a message whose content is None, or raise.
Contents == {"r1", "r2"}
Errors == {"timeout", "http500"}

Outcomes ==
    [kind : {"content"}, value : Contents] \cup
    {[kind |-> "null", value |-> ""]} \cup
    [kind : {"error"}, value : Errors]

\* the exception an attempt ends with: raise ValueError("AI返回空响应") for a
\* None content, the request's own exception otherwise
FailureOf(outcome) ==
    IF outcome.kind = "null" THEN "empty_response" ELSE outcome.value

\* the test with the bound off by one: the last attempt is never recognised
IsLastAttemptOffByOne(attempt, max_retries) == attempt = max_retries

\* if attempt == max_retries - 1: raise e
IsLastAttempt(attempt, max_retries) == attempt = max_retries - 1

RetryInit ==
    /\ rt_pc = "attempt"
    /\ rt_max_retries \in 0..MaxRetries
    /\ rt_attempt = 0
    /\ rt_requests = 0
    /\ rt_log = <<>>
    /\ rt_slept = 0
    /\ rt_result = [status |-> "none", value |-> ""]
    /\ IterIdle /\ RateIdle /\ StreamIdle /\ BatchIdle /\ NormIdle /\ CmpIdle /\ CompareIdle /\ PreviewIdle

\* One pass of the loop body: the request and what follows it (94-111)
RetryAttempt ==
    /\ rt_pc = "attempt"
    /\ rt_attempt < rt_max_retries
    /\ \E outcome \in Outcomes :
        /\ rt_requests' = rt_requests + 1
        /\ rt_log' = Append(rt_log, outcome)
        /\ IF outcome.kind = "content"
           THEN /\ rt_pc' = "returned"
                /\ rt_result' = [status |-> "returned", value |-> outcome.value]
           ELSE IF IsLastAttempt(rt_attempt, rt_max_retries)
           THEN /\ rt_pc' = "raised"
                /\ rt_result' = [status |-> "raised", value |-> FailureOf(outcome)]
           ELSE /\ rt_pc' = "sleep"
                /\ UNCHANGED rt_result
    /\ UNCHANGED <<rt_max_retries, rt_attempt, rt_slept>>
    /\ UNCHANGED notRetry

\* time.sleep(2), then the next pass of the loop (112, 94)
RetrySleep ==
    /\ rt_pc = "sleep"
    /\ rt_slept' = rt_slept + RetryDelay
    /\ rt_attempt' = rt_attempt + 1
    /\ rt_pc' = "attempt"
    /\ UNCHANGED <<rt_max_retries, rt_requests, rt_log, rt_result>>
    /\ UNCHANGED notRetry

\* The loop ends without a return or a raise (114)
RetryLoopEnd ==
    /\ rt_pc = "attempt"
    /\ rt_attempt >= rt_max_retries
    /\ rt_pc' = "raised"
    /\ rt_result' = [status |-> "raised", value |-> "max_retries_reached"]
    /\ UNCHANGED <<rt_max_retries, rt_attempt, rt_requests, rt_log, rt_slept>>
    /\ UNCHANGED notRetry

RetryNext == RetryAttempt \/ RetrySleep \/ RetryLoopEnd

SpecRetry == RetryInit /\ [][RetryNext]_vars

Failed(outcome) == outcome.kind # "content"

\* C6: call_ai_with_retry issues at most max_retries requests; it returns the
\* content of the first attempt with non-null content and issues no request
\* after it; a failed attempt (exception or null content) that is not the
\* last is followed by the fixed delay and another attempt; when all
\* max_retries attempts failed the failure of the last one is raised.
C6_RetryContract ==
    /\ rt_requests = Len(rt_log)
    /\ rt_requests <= rt_max_retries
    /\ \A i \in 1..(Len(rt_log) - 1) : Failed(rt_log[i])
    /\ rt_slept = RetryDelay * rt_attempt
    /\ rt_pc = "returned" =>
          /\ rt_result = [status |-> "returned", value |-> rt_log[Len(rt_log)].value]
          /\ ~Failed(rt_log[Len(rt_log)])
    /\ (rt_log # <<>> /\ Failed(rt_log[Len(rt_log)]) /\ Len(rt_log) < rt_max_retries) =>
          /\ rt_pc \in {"sleep", "attempt"}
          /\ rt_pc = "attempt" => rt_attempt = Len(rt_log)
    /\ (rt_pc = "raised" /\ rt_max_retries > 0) =>
          /\ Len(rt_log) = rt_max_retries
          /\ Failed(rt_log[Len(rt_log)])
          /\ rt_result = [status |-> "raised",
                          value |-> FailureOf(rt_log[Len(rt_log)])]

\* All three attempts failed, with different failures, and the call raised.
C6_Witness ==
    /\ rt_pc = "raised"
    /\ Len(rt_log) = 3
    /\ rt_log[1].kind = "error" /\ rt_log[2].kind = "null"
    /\ rt_log[3] = [kind |-> "error", value |-> "http500"]
    /\ rt_log[1].value = "timeout"

\* ------------------------------------------ AIAnalysisBase.call_ai_with_stream
\* A chunk of the stream: its delta carries text, or its content is None.
Texts == {<<"a">>, <<"b", "c">>}

Chunks == [has_content : {TRUE}, content : Texts] \cup
          {[has_content |-> FALSE, content |-> <<>>]}

\* the chunk put in front of what has been collected
StreamPrepend(full, content) == content \o full

\* full_response += content
StreamAppend(full, content) == full \o content

StreamInit ==
    /\ st_pc = "call"
    /\ st_requests = 0
    /\ st_chunks = <<>>
    /\ full_response = <<>>
    /\ st_result = [status |-> "none", text |-> None]
    /\ IterIdle /\ RateIdle /\ RetryIdle /\ BatchIdle /\ NormIdle /\ CmpIdle /\ CompareIdle /\ PreviewIdle

\* self.client.chat.completions.create(..., stream=True) (ai_analyzer.py 96-106)
StreamRequest ==
    /\ st_pc = "call"
    /\ st_requests' = st_requests + 1
    /\ \/ /\ st_pc' = "streaming"
          /\ UNCHANGED st_result
       \/ /\ st_pc' = "raised"
          /\ st_result' = [status |-> "raised", text |-> None]
    /\ UNCHANGED <<st_chunks, full_response>>
    /\ UNCHANGED notStream

\* for chunk in stream: one chunk arrives (ai_analyzer.py 108-112)
StreamChunk ==
    /\ st_pc = "streaming"
    /\ Len(st_chunks) < MaxChunks
    /\ \E chunk \in Chunks :
        /\ st_chunks' = Append(st_chunks, chunk)
        /\ full_response' = IF chunk.has_content
                            THEN StreamAppend(full_response, chunk.content)
                            ELSE full_response
    /\ UNCHANGED <<st_pc, st_requests, st_result>>
    /\ UNCHANGED notStream

\* The stream fails while it is read; both handlers re-raise
\* (ai_analyzer.py 128-133, ai_base.py 150-153)
StreamFail ==
    /\ st_pc = "streaming"
    /\ st_pc' = "raised"
    /\ st_result' = [status |-> "raised", text |-> None]
    /\ UNCHANGED <<st_requests, st_chunks, full_response>>
    /\ UNCHANGED notStream

\* The stream ends: return full_response (ai_analyzer.py 126, ai_base.py 148)
StreamEnd ==
    /\ st_pc = "streaming"
    /\ st_pc' = "returned"
    /\ st_result' = [status |-> "returned", text |-> Some(full_response)]
    /\ UNCHANGED <<st_requests, st_chunks, full_response>>
    /\ UNCHANGED notStream

StreamNext == StreamRequest \/ StreamChunk \/ StreamFail \/ StreamEnd

SpecStream == StreamInit /\ [][StreamNext]_vars

\* the content chunks received, in arrival order
ContentsOf(chunks) ==
    LET kept == SelectSeq(chunks, LAMBDA c : c.has_content)
    IN  [i \in DOMAIN kept |-> kept[i].content]

\* C7: a streaming call issues exactly one request; a failure of the request
\* or of the stream is raised to the caller, with no second request and no
\* partial text returned; a stream that ends normally returns the received
\* content chunks concatenated in arrival order.
C7_StreamContract ==
    /\ st_requests <= 1
    /\ st_pc \in {"streaming", "returned", "raised"} => st_requests = 1
    /\ st_pc = "raised" => st_result = [status |-> "raised", text |-> None]
    /\ st_pc = "returned" =>
          st_result = [status |-> "returned",
                       text |-> Some(Flatten(ContentsOf(st_chunks)))]
    /\ st_pc \in {"call", "streaming"} => st_result.status = "none"

\* Two different content chunks arrived and the stream ended normally.
C7_Witness ==
    /\ st_pc = "returned"
    /\ st_result.text = Some(<<"a", "b", "c">>)
    /\ Len(st_chunks) = 3

\* --------------------------------------------------- _normalize_filename
\* A filename is a sequence of one-character strings.
Digits == {"0", "1", "2", "3", "4", "5", "6", "7", "8", "9"}

LowerLetters ==
    <<"a", "b", "c", "d", "e", "f", "g", "h", "i", "j", "k", "l", "m",
      "n", "o", "p", "q", "r", "s", "t", "u", "v", "w", "x", "y", "z">>

UpperLetters ==
    <<"A", "B", "C", "D", "E", "F", "G", "H", "I", "J", "K", "L", "M",
      "N", "O", "P", "Q", "R", "S", "T", "U", "V", "W", "X", "Y", "Z">>

IsDigit(c) == c \in Digits                      \* \d
IsSep(c) == c \in {"-", "_"}                    \* [-_]
IsLetter(c) == c \in Range(LowerLetters) \cup Range(UpperLetters)
IsWord(c) == IsLetter(c) \/ IsDigit(c) \/ c = "_"   \* \w
IsSpace(c) == c \in {" ", "\t", "\n", "\r"}

\* str.lower() on one character
LowerChar(c) ==
    IF c \in Range(UpperLetters)
    THEN LowerLetters[CHOOSE i \in DOMAIN UpperLetters : UpperLetters[i] = c]
    ELSE c

Lower(name) == [i \in DOMAIN name |-> LowerChar(name[i])]

\* str.strip(): leading and trailing whitespace removed
Strip(name) ==
    LET inner == {i \in DOMAIN name : ~IsSpace(name[i])}
    IN  IF inner = {} THEN <<>>
        ELSE SubSeq(name, CHOOSE i \in inner : \A j \in inner : i <= j,
                          CHOOSE i \in inner : \A j \in inner : i >= j)

\* the last position of character c in name, 0 when there is none
LastIndexOf(name, c) ==
    IF \E i \in DOMAIN name : name[i] = c
    THEN CHOOSE i \in DOMAIN name : name[i] = c /\ \A j \in DOMAIN name : name[j] = c => j <= i
    ELSE 0

\* os.path.splitext(filename)[0]: the name up to its last dot, unless that
\* dot lies before the last "/" or only dots precede it in the last component
Splitext(name) ==
    LET sepIndex == LastIndexOf(name, "/")
        dotIndex == LastIndexOf(name, ".")
    IN  IF dotIndex > sepIndex
           /\ \E k \in (sepIndex + 1)..(dotIndex - 1) : name[k] # "."
        THEN SubSeq(name, 1, dotIndex - 1)
        ELSE name

\* re.sub(r"[-_]\d+$", "", name)
StripNumber(name) ==
    LET starts == {i \in DOMAIN name :
                      /\ IsSep(name[i])
                      /\ i < Len(name)
                      /\ \A k \in (i + 1)..Len(name) : IsDigit(name[k])}
    IN  IF starts = {} THEN name
        ELSE SubSeq(name, 1, (CHOOSE i \in starts : \A j \in starts : i <= j) - 1)

\* the end of the longest run of digits starting at position i (i - 1 when
\* name[i] is no digit)
RECURSIVE DigitsEnd(_, _)
DigitsEnd(name, i) ==
    IF i <= Len(name) /\ IsDigit(name[i]) THEN DigitsEnd(name, i + 1) ELSE i - 1

\* the end of a match of [-_]v?\d+\.\d+ starting at position i, 0 when there
\* is none
VersionMatchEnd(name, i) ==
    LET afterV == IF i + 1 <= Len(name) /\ LowerChar(name[i + 1]) = "v"
                  THEN i + 2 ELSE i + 1
        major == DigitsEnd(name, afterV)
        minor == DigitsEnd(name, major + 2)
    IN  IF /\ IsSep(name[i])
           /\ major >= afterV
           /\ major + 1 <= Len(name) /\ name[major + 1] = "."
           /\ minor >= major + 2
        THEN minor
        ELSE 0

\* re.sub(r"[-_]v?\d+\.\d+", "", name): every match, left to right, removed
RECURSIVE StripVersionFrom(_, _)
StripVersionFrom(name, i) ==
    IF i > Len(name) THEN <<>>
    ELSE IF VersionMatchEnd(name, i) > 0
    THEN StripVersionFrom(name, VersionMatchEnd(name, i) + 1)
    ELSE <<name[i]>> \o StripVersionFrom(name, i + 1)

StripVersion(name) == StripVersionFrom(name, 1)

\* re.sub(r"[-_]<word>$", "", name, flags=re.IGNORECASE)
StripWord(name, word) ==
    LET n == Len(name)
        w == Len(word)
    IN  IF /\ n > w
           /\ IsSep(name[n - w])
           /\ Lower(SubSeq(name, n - w + 1, n)) = word
        THEN SubSeq(name, 1, n - w - 1)
        ELSE name

\* re.sub(r"[-_]\w{8}$", "", name)
StripHash(name) ==
    LET n == Len(name)
    IN  IF /\ n > 8
           /\ IsSep(name[n - 8])
           /\ \A k \in (n - 7)..n : IsWord(name[k])
        THEN SubSeq(name, 1, n - 9)
        ELSE name

\* _normalize_filename: the extension is split off, the five patterns are
\* substituted once each in their order, then strip() and lower()
NormalizeFilename(filename) ==
    Lower(Strip(StripHash(
        StripWord(StripWord(StripVersion(StripNumber(Splitext(filename))),
                            <<"c", "o", "p", "y">>),
                  <<"b", "a", "c", "k", "u", "p">>))))

\* ------------------------------------- _normalize_filename applied twice
\* The filenames given to _normalize_filename: a stem followed by up to
\* MaxParts suffixes and extensions.
NameStems == {<<"x">>, <<"R", "e", "p", "o", "r", "t">>}

NameParts ==
    {<<"_", "1">>, <<"_", "c", "o", "p", "y">>, <<"_", "v", "1", ".", "2">>,
     <<"-", "b", "a", "c", "k", "u", "p">>, <<".", "t", "x", "t">>,
     <<"_", "a", "b", "c", "d", "1", "2", "3", "4">>}

NormInputs ==
    {stem \o Flatten(parts) : stem \in NameStems, parts \in SeqsUpTo(NameParts, MaxParts)}

NormInit ==
    /\ nm_pc = "given"
    /\ nm_input \in NormInputs
    /\ nm_once = <<>>
    /\ nm_twice = <<>>
    /\ IterIdle /\ RateIdle /\ RetryIdle /\ StreamIdle /\ BatchIdle /\ CmpIdle /\ CompareIdle /\ PreviewIdle

\* name = self._normalize_filename(filename)
NormApply ==
    /\ nm_pc = "given"
    /\ nm_once' = NormalizeFilename(nm_input)
    /\ nm_pc' = "once"
    /\ UNCHANGED <<nm_input, nm_twice>>
    /\ UNCHANGED notNorm

\* the function applied to its own result
NormReapply ==
    /\ nm_pc = "once"
    /\ nm_twice' = NormalizeFilename(nm_once)
    /\ nm_pc' = "twice"
    /\ UNCHANGED <<nm_input, nm_once>>
    /\ UNCHANGED notNorm

NormNext == NormApply \/ NormReapply

SpecNorm == NormInit /\ [][NormNext]_vars

\* C11: _normalize_filename is idempotent: applied to its own result it
\* returns that result unchanged.
C11_Idempotent == nm_pc = "twice" => nm_twice = nm_once

\* --------------------------------------------------- BatchGroupingAnalyzer
\* The ai_name values the pool files carry.
ReportV1 == <<"r", "e", "p", "o", "r", "t", "_", "v", "1", ".", "t", "x", "t">>
ReportV2 == <<"r", "e", "p", "o", "r", "t", "_", "v", "2", ".", "t", "x", "t">>
Notes == <<"n", "o", "t", "e", "s", ".", "t", "x", "t">>
Notes2 == <<"n", "o", "t", "e", "s", "_", "2", ".", "t", "x", "t">>
NotesCopy == <<"N", "o", "t", "e", "s", "-", "c", "o", "p", "y", ".", "m", "d">>

NameCorpus == {ReportV1, ReportV2, Notes, Notes2, NotesCopy}

\* self._normalize_filename(version.ai_name) for each name a pool file can
\* carry
NormalizedName == [name \in NameCorpus |-> NormalizeFilename(name)]

\* A batch grouping response lists groups of file indices.  Its body is
\* enumerated as a sequence of tokens: an index, a break that starts the next
\* group, or an element that is no integer.
NewGroup == -1
NonInteger == -2

Tokens(n) == (0..(n + 1)) \cup {NewGroup, NonInteger}

\* the groups' file_indices lists a token sequence stands for
RECURSIVE SplitGroups(_)
SplitGroups(tokens) ==
    IF tokens = <<>> THEN <<<<>>>>
    ELSE LET rest == SplitGroups(Tail(tokens))
         IN  IF Head(tokens) = NewGroup THEN <<<<>>>> \o rest
             ELSE <<<<Head(tokens)>> \o Head(rest)>> \o Tail(rest)

UnparseableBatch == [parses |-> FALSE, groups |-> <<>>]

BatchResponses(n) ==
    {UnparseableBatch} \cup
    {[parses |-> TRUE, groups |-> SplitGroups(tokens)] :
        tokens \in SeqsUpTo(Tokens(n), MaxTokens)}

\* group_data.get("group_name", "unknown"); the oracle's label plays no part
\* in what follows and is left at the default
DefaultGroupName == <<"u", "n", "k", "n", "o", "w", "n">>

\* for idx in file_indices: if 1 <= idx <= len(versions): append versions[idx - 1]
\* (a file is its 1-based position in versions)
RECURSIVE ResolveIndices(_, _)
ResolveIndices(file_indices, n) ==
    IF file_indices = <<>> THEN <<>>
    ELSE LET idx == Head(file_indices)
             rest == ResolveIndices(Tail(file_indices), n)
         IN  IF 1 <= idx /\ idx <= n THEN <<idx>> \o rest ELSE rest

\* the groups built from the response's groups, empty ones skipped (116-131)
RECURSIVE ListedGroups(_, _)
ListedGroups(groups_data, n) ==
    IF groups_data = <<>> THEN <<>>
    ELSE LET members == ResolveIndices(Head(groups_data), n)
             rest == ListedGroups(Tail(groups_data), n)
         IN  IF members # <<>>
             THEN <<[base_name |-> DefaultGroupName, versions |-> members]>> \o rest
             ELSE rest

\* used_indices: every in-range index some group lists
UsedIndices(groups_data, n) ==
    {idx \in 1..n : \E g \in DOMAIN groups_data : Contains(groups_data[g], idx)}

\* the omitted files left without a group
UnusedGroupsDropped(i, used, names) == <<>>

\* the single-file groups of the indices no group used, in index order (135-141)
RECURSIVE UnusedGroups(_, _, _)
UnusedGroups(i, used, names) ==
    IF i > Len(names) THEN <<>>
    ELSE IF i \in used THEN UnusedGroups(i + 1, used, names)
    ELSE <<[base_name |-> NormalizedName[names[i]], versions |-> <<i>>]>>
         \o UnusedGroups(i + 1, used, names)

\* comparing an element that is no integer with 1 raises TypeError
RaisesTypeError(groups_data) ==
    \E g \in DOMAIN groups_data : Contains(groups_data[g], NonInteger)

\* name_groups: the normalized names in order of first occurrence (196-201)
RECURSIVE NameKeys(_, _)
NameKeys(names, i) ==
    IF i > Len(names) THEN <<>>
    ELSE LET key == NormalizedName[names[i]]
         IN  IF \E j \in 1..(i - 1) : NormalizedName[names[j]] = key
             THEN NameKeys(names, i + 1)
             ELSE <<key>> \o NameKeys(names, i + 1)

\* name_groups[key]: the files with that normalized name, in pool order
NameGroup(names, key) ==
    SelectSeq([i \in DOMAIN names |-> i], LAMBDA i : NormalizedName[names[i]] = key)

\* the size test letting a group of one file through
KeepsAnyGroup(members) == Len(members) > 0

\* if len(group_versions) > 1
KeepsGroup(members) == Len(members) > 1

\* _fallback_grouping (193-210)
FallbackGrouping(names) ==
    LET keys == NameKeys(names, 1)
        all == [k \in DOMAIN keys |->
                   [base_name |-> keys[k], versions |-> NameGroup(names, keys[k])]]
    IN  SelectSeq(all, LAMBDA g : KeepsGroup(g.versions))

\* BatchGroupingAnalyzer.parse_response (105-153)
ParseBatch(response, names) ==
    IF ~response.parses \/ RaisesTypeError(response.groups)
    THEN [fallback |-> TRUE, groups |-> FallbackGrouping(names)]
    ELSE [fallback |-> FALSE,
          groups |-> ListedGroups(response.groups, Len(names))
                     \o UnusedGroups(1, UsedIndices(response.groups, Len(names)), names)]

BatchInit ==
    /\ bg_names \in SeqsUpTo(NameCorpus, MaxFiles)
    /\ bg_pc = "called"
    /\ bg_fallback = FALSE
    /\ bg_groups = <<>>
    /\ IterIdle /\ RateIdle /\ RetryIdle /\ StreamIdle /\ NormIdle /\ CmpIdle /\ CompareIdle /\ PreviewIdle

\* The oracle's response arrives and parse_response returns the groups
BatchParse ==
    /\ bg_pc = "called"
    /\ \E response \in BatchResponses(Len(bg_names)) :
        LET parsed == ParseBatch(response, bg_names) IN
        /\ bg_groups' = parsed.groups
        /\ bg_fallback' = parsed.fallback
    /\ bg_pc' = "done"
    /\ UNCHANGED bg_names
    /\ UNCHANGED notBatch

BatchNext == BatchParse

SpecBatch == BatchInit /\ [][BatchNext]_vars

\* ------------------------------------------------ claims on batch grouping
BatchFiles == DOMAIN bg_names

BatchGroupsHolding(f) ==
    {g \in DOMAIN bg_groups : Contains(bg_groups[g].versions, f)}

\* C8: for a response that parses, the returned groups are a complete
\* partition of the pool: every pool file is in exactly one returned group,
\* once.
C8_BatchPartition ==
    (bg_pc = "done" /\ ~bg_fallback) =>
        \A f \in BatchFiles :
            /\ Cardinality(BatchGroupsHolding(f)) = 1
            /\ \A g \in BatchGroupsHolding(f) : Count(bg_groups[g].versions, f) = 1

\* the pool files whose normalized name equals that of file f
NameClass(f) ==
    {h \in BatchFiles : NormalizedName[bg_names[h]] = NormalizedName[bg_names[f]]}

\* C9: on the fallback path the returned groups are exactly the classes of
\* equal normalized name with at least 2 members: a file sharing its
\* normalized name with no other file is in no group, and no file is in two
\* groups or twice in one.
C9_FallbackRule ==
    (bg_pc = "done" /\ bg_fallback) =>
        /\ {Range(bg_groups[g].versions) : g \in DOMAIN bg_groups} =
           {NameClass(f) : f \in {h \in BatchFiles : Cardinality(NameClass(h)) >= 2}}
        /\ \A f \in BatchFiles :
              /\ Cardinality(NameClass(f)) = 1 => BatchGroupsHolding(f) = {}
              /\ Cardinality(BatchGroupsHolding(f)) <= 1
              /\ \A g \in DOMAIN bg_groups : Count(bg_groups[g].versions, f) <= 1

\* A pool of three files, two of them sharing a normalized name, went through
\* the fallback: one group of two, the third file in no group.
C9_Witness ==
    /\ bg_pc = "done" /\ bg_fallback
    /\ bg_names = <<Notes, ReportV1, Notes2>>
    /\ Len(bg_groups) = 1
    /\ bg_groups[1].versions = <<1, 3>>

\* C10: the fallback on the pool report_v1.txt, report_v2.txt, notes.txt
\* yields exactly one group, holding report_v1 and report_v2, and notes is
\* in no group; the two report names normalize to the same base name.
C10_ReportExample ==
    (bg_pc = "done" /\ bg_fallback /\ bg_names = <<ReportV1, ReportV2, Notes>>) =>
        /\ NormalizeFilename(ReportV1) = NormalizeFilename(ReportV2)
        /\ Len(bg_groups) = 1
        /\ bg_groups[1].versions = <<1, 2>>
        /\ BatchGroupsHolding(3) = {}

\* ------------------------- VersionComparisonAnalyzer.parse_response alone
\* The responses given to parse_response for a group of n files; every
\* entry carries a sort_index.
CmpFileEntries(n) ==
    [filename : (1..n) \cup {UnknownName},
     sort_index : {Some(k) : k \in 0..CmpMaxSortIndex},
     misjudged : BOOLEAN]

CmpResponses(n) ==
    {UnparseableComparison} \cup
    [parses : {TRUE}, group_misjudged : BOOLEAN,
     files : SeqsUpTo(CmpFileEntries(n), CmpMaxEntries)]

\* a group of 1..MaxFiles files is about to be compared; FileVersion.misjudged
\* is False on a freshly loaded file
CmpInit ==
    /\ cp_pc = "called"
    /\ cp_versions \in {[i \in 1..n |-> i] : n \in 1..MaxFiles}
    /\ cp_response = <<>>
    /\ cp_flags = [f \in 1..MaxFiles |-> FALSE]
    /\ cp_result = <<>>
    /\ IterIdle /\ RateIdle /\ RetryIdle /\ StreamIdle /\ BatchIdle /\ NormIdle
    /\ CompareIdle /\ PreviewIdle

\* parse_response(response, versions) runs to its return
CmpParse ==
    /\ cp_pc = "called"
    /\ \E response \in CmpResponses(Len(cp_versions)) :
        LET parsed == ParseComparison(response, cp_versions, cp_flags) IN
        /\ cp_response' = response
        /\ cp_flags' = parsed.flags
        /\ cp_result' = parsed.result
    /\ cp_pc' = "returned"
    /\ UNCHANGED cp_versions
    /\ UNCHANGED notCmp

CmpNext == CmpParse

SpecCmp == CmpInit /\ [][CmpNext]_vars

\* ------------------------------------------ claims on the comparison parse
\* the entries of the response that resolve to a member of the group
ResolvedEntries ==
    SelectSeq(cp_response.files, LAMBDA e : FindVersion(cp_versions, e.filename) # NoFile)

\* the sort_index values the resolved entries carry
UsedSlots == {GetSortIndex(ResolvedEntries[i]) : i \in DOMAIN ResolvedEntries}

\* the file of the last resolved entry carrying sort_index k
LastInSlot(k) ==
    LET last == CHOOSE i \in DOMAIN ResolvedEntries :
                    /\ GetSortIndex(ResolvedEntries[i]) = k
                    /\ \A j \in DOMAIN ResolvedEntries :
                          GetSortIndex(ResolvedEntries[j]) = k => j <= i
    IN  FindVersion(cp_versions, ResolvedEntries[last].filename)

\* the response's files array lists the files fs with the sort_index values ks
ListsInOrder(fs, ks) ==
    /\ cp_response.parses
    /\ Len(cp_response.files) = Len(fs)
    /\ \A i \in DOMAIN fs :
          /\ cp_response.files[i].filename = fs[i]
          /\ cp_response.files[i].sort_index = Some(ks[i])

\* C12: when every resolved entry has a sort_index of 1 or more,
\* sorted_versions lists, in ascending sort_index and without gaps, the file
\* of the last entry carrying each sort_index; [2,1,3] for files [A,B,C]
\* gives [B,A,C] and [1,1,3] gives a sequence of length 2.
C12_OrderingReconstruction ==
    (/\ cp_pc = "returned"
     /\ cp_response.parses
     /\ ResolvedEntries # <<>>
     /\ \A k \in UsedSlots : k >= 1)
    => /\ Len(cp_result.sorted_versions) = Cardinality(UsedSlots)
       /\ \A k \in UsedSlots :
             cp_result.sorted_versions[Cardinality({m \in UsedSlots : m <= k})]
                 = LastInSlot(k)
       /\ ListsInOrder(<<1, 2, 3>>, <<2, 1, 3>>) => cp_result.sorted_versions = <<2, 1, 3>>
       /\ ListsInOrder(<<1, 2, 3>>, <<1, 1, 3>>) => Len(cp_result.sorted_versions) = 2

\* The duplicate case: files [A,B,C] with sort_index [1,1,3] were parsed, B
\* replaced A and the gap at 2 is gone.
C12_Witness ==
    /\ cp_pc = "returned"
    /\ ListsInOrder(<<1, 2, 3>>, <<1, 1, 3>>)
    /\ cp_result.sorted_versions = <<2, 3>>

\* C13: when the response has group_misjudged = true, every member of the
\* group has misjudged = true after parse_response, listed in the files
\* array or not.
C13_MisjudgmentPropagation ==
    (cp_pc = "returned" /\ cp_response.parses /\ cp_response.group_misjudged)
    => \A f \in Range(cp_versions) : cp_flags[f]

\* the loop over the files array ends in an exception
RaisesInLoop ==
    /\ cp_response.parses
    /\ CmpLoop([flags |-> [f \in 1..MaxFiles |-> FALSE], fal |-> <<>>,
                sorted |-> <<>>, raised |-> FALSE],
               cp_response.files, cp_versions, cp_response.group_misjudged).raised

\* C16: for a response parse_response cannot process (it is no JSON, or the
\* loop over its files raises) the call returns a result with success =
\* false, sorted_versions in the group's original order, group_misjudged =
\* true and raw_response the response itself.
C16_ParseFailureResult ==
    (cp_pc = "returned" /\ (~cp_response.parses \/ RaisesInLoop))
    => /\ cp_result.success = FALSE
       /\ cp_result.sorted_versions = cp_versions
       /\ cp_result.group_misjudged = TRUE
       /\ cp_result.raw_response = cp_response

\* A response whose first entry has sort_index 0 raised IndexError in the
\* loop and the failure result was returned.
C16_Witness ==
    /\ cp_pc = "returned"
    /\ cp_response.parses
    /\ cp_response.files # <<>>
    /\ cp_response.files[1].filename = 1
    /\ cp_response.files[1].sort_index = Some(0)
    /\ cp_result.success = FALSE
    /\ Len(cp_versions) = 2

\* C17: when the response parses and none of its entries resolves to a
\* member, the result has success = true, sorted_versions in the group's
\* original order and one synthesized analysis entry per member, whose
\* sort_index is the member's 1-based position.
C17_DegradedOutcome ==
    (cp_pc = "returned" /\ cp_response.parses /\ ResolvedEntries = <<>>)
    => /\ cp_result.success = TRUE
       /\ cp_result.sorted_versions = cp_versions
       /\ Len(cp_result.file_analysis_list) = Len(cp_versions)
       /\ \A i \in DOMAIN cp_versions :
             /\ cp_result.file_analysis_list[i].file = cp_versions[i]
             /\ cp_result.file_analysis_list[i].sort_index = i

\* A response with two entries, neither naming a member of a three-file
\* group, gave the degraded outcome.
C17_Witness ==
    /\ cp_pc = "returned"
    /\ cp_response.parses
    /\ Len(cp_response.files) = 2
    /\ ResolvedEntries = <<>>
    /\ Len(cp_versions) = 3
    /\ Len(cp_result.file_analysis_list) = 3

\* ------------------------------------------- iterative_analysis
\* candidate_files: the remaining files whose hash differs from the seed's
Candidates(remaining, seed_file) == SelectSeq(remaining, LAMBDA v : v # seed_file)

\* only the seed taken out of the pool
RemoveSeedOnly(remaining, members) == Tail(remaining)

\* remaining_versions without the files whose hash is in processed_hashes
RemoveProcessed(remaining, members) ==
    SelectSeq(remaining, LAMBDA v : ~Contains(members, v))

SingleGroup(v) ==
    [versions |-> <<v>>, sorted_versions |-> None, analysis_result |-> None]

\* the break taken one iteration early
AfterIterationEarly(remaining, iter) ==
    IF remaining = <<>> \/ iter >= MaxIterations THEN "after_loop" ELSE "loop"

\* the loop without its break
AfterIterationNoCeiling(remaining, iter) ==
    IF remaining = <<>> THEN "after_loop" ELSE "loop"

\* iteration += 1; if iteration > 10: break; and the while condition
AfterIteration(remaining, iter) ==
    IF remaining = <<>> \/ iter > MaxIterations THEN "after_loop" ELSE "loop"

\* the misjudged check over file_analysis_list (main.py 503-508)
RECURSIVE CollectMisjudged(_, _)
CollectMisjudged(acc, file_analysis_list) ==
    IF file_analysis_list = <<>> THEN acc
    ELSE LET fa == Head(file_analysis_list)
             acc2 == IF fa.misjudged
                     THEN [flags |-> [acc.flags EXCEPT ![fa.file] = TRUE],
                           list |-> IF Contains(acc.list, fa.file) THEN acc.list
                                    ELSE Append(acc.list, fa.file)]
                     ELSE acc
         IN  CollectMisjudged(acc2, Tail(file_analysis_list))

\* group.sorted_versions or group.versions
EmittedVersions(group) ==
    IF group.sorted_versions = None \/ group.sorted_versions = Some(<<>>)
    THEN group.versions ELSE group.sorted_versions[1]

\* the report dictionary (main.py 550-588)
BuildReport(groups, flags, misjudged_list) ==
    [version_groups |->
        [g \in DOMAIN groups |->
            [versions_count |-> Len(groups[g].versions),
             sorted_versions |->
                [k \in DOMAIN EmittedVersions(groups[g]) |->
                    [hash |-> EmittedVersions(groups[g])[k],
                     misjudged |-> flags[EmittedVersions(groups[g])[k]]]],
             group_misjudged |->
                IF groups[g].analysis_result = None THEN FALSE
                ELSE groups[g].analysis_result[1].group_misjudged]],
     misjudged_files |-> misjudged_list]

IterInit ==
    /\ versions \in {[i \in 1..n |-> i] : n \in 0..MaxFiles}
    /\ remaining_versions = versions
    /\ processed_groups = <<>>
    /\ misjudged = [f \in 1..MaxFiles |-> FALSE]
    /\ misjudged_files = <<>>
    /\ iteration = 1
    /\ it_pc = IF versions = <<>> THEN "after_loop" ELSE "loop"
    /\ group_versions = <<>>
    /\ report = None
    /\ seed_calls = 0
    /\ comparison_calls = 0
    /\ RateIdle /\ RetryIdle /\ StreamIdle /\ BatchIdle /\ NormIdle /\ CmpIdle /\ CompareIdle /\ PreviewIdle

\* No candidate is left: the seed becomes a single-file group (main.py 523-531)
IterNoCandidates ==
    /\ it_pc = "loop"
    /\ Candidates(remaining_versions, Head(remaining_versions)) = <<>>
    /\ processed_groups' = Append(processed_groups, SingleGroup(Head(remaining_versions)))
    /\ remaining_versions' = Tail(remaining_versions)
    /\ iteration' = iteration + 1
    /\ it_pc' = AfterIteration(remaining_versions', iteration')
    /\ UNCHANGED <<versions, misjudged, misjudged_files, group_versions, report,
                   seed_calls, comparison_calls>>
    /\ UNCHANGED notIter

\* iterative_grouping_analyzer.analyze returns for the response received
\* (main.py 474-486, 514-522)
SeedGroupingReturns(response) ==
    LET seed_file == Head(remaining_versions)
        candidate_files == Candidates(remaining_versions, seed_file)
        similar_files == ParseSimilar(response, candidate_files)
    IN
    /\ seed_calls' = seed_calls + 1
    /\ IF similar_files # <<>>
       THEN /\ group_versions' = <<seed_file>> \o similar_files
            /\ it_pc' = "comparing"
            /\ UNCHANGED <<processed_groups, remaining_versions, iteration>>
       ELSE /\ processed_groups' = Append(processed_groups, SingleGroup(seed_file))
            /\ remaining_versions' = Tail(remaining_versions)
            /\ iteration' = iteration + 1
            /\ it_pc' = AfterIteration(remaining_versions', iteration')
            /\ UNCHANGED group_versions
    /\ UNCHANGED <<versions, misjudged, misjudged_files, report, comparison_calls>>
    /\ UNCHANGED notIter

\* The seed-grouping call returns (main.py 467-486, 514-522)
IterGrouping ==
    /\ it_pc = "loop"
    /\ Candidates(remaining_versions, Head(remaining_versions)) # <<>>
    /\ \E response \in SeedResponses(Len(versions)) : SeedGroupingReturns(response)

\* The comparison call returns; the group is recorded and its members leave
\* the remaining pool (main.py 489-513)
ComparisonReturns(response) ==
    LET parsed == ParseComparison(response, group_versions, misjudged)
        collected == CollectMisjudged([flags |-> parsed.flags, list |-> misjudged_files],
                                      parsed.result.file_analysis_list)
        group == [versions |-> group_versions,
                  sorted_versions |-> Some(parsed.result.sorted_versions),
                  analysis_result |-> Some(parsed.result)]
    IN
    /\ misjudged' = collected.flags
    /\ misjudged_files' = collected.list
    /\ processed_groups' = Append(processed_groups, group)
    /\ remaining_versions' = RemoveProcessed(remaining_versions, group_versions)
    /\ iteration' = iteration + 1
    /\ it_pc' = AfterIteration(remaining_versions', iteration')
    /\ group_versions' = <<>>
    /\ comparison_calls' = comparison_calls + 1
    /\ UNCHANGED <<versions, report, seed_calls>>
    /\ UNCHANGED notIter

IterComparison ==
    /\ it_pc = "comparing"
    /\ \E response \in ComparisonResponses(Len(versions)) : ComparisonReturns(response)

\* An oracle call of the loop raises (call_ai_with_stream re-raises): nothing
\* in iterative_analysis catches it, the run ends without a report.
IterOracleError ==
    /\ \/ /\ it_pc = "loop"
          /\ Candidates(remaining_versions, Head(remaining_versions)) # <<>>
       \/ it_pc = "comparing"
    /\ it_pc' = "raised"
    /\ seed_calls' = IF it_pc = "loop" THEN seed_calls + 1 ELSE seed_calls
    /\ comparison_calls' =
          IF it_pc = "comparing" THEN comparison_calls + 1 ELSE comparison_calls
    /\ UNCHANGED <<versions, remaining_versions, processed_groups, misjudged,
                   misjudged_files, iteration, group_versions, report>>
    /\ UNCHANGED notIter

\* After the loop: leftover files become single-file groups and the report
\* is written (main.py 539-592)
IterFinish ==
    /\ it_pc = "after_loop"
    /\ processed_groups' =
          processed_groups \o [i \in DOMAIN remaining_versions |->
                                  SingleGroup(remaining_versions[i])]
    /\ remaining_versions' = <<>>
    /\ report' = Some(BuildReport(processed_groups', misjudged, misjudged_files))
    /\ it_pc' = "done"
    /\ UNCHANGED <<versions, misjudged, misjudged_files, iteration, group_versions,
                   seed_calls, comparison_calls>>
    /\ UNCHANGED notIter

IterNext ==
    \/ IterNoCandidates
    \/ IterGrouping
    \/ IterComparison
    \/ IterOracleError
    \/ IterFinish

SpecIter == IterInit /\ [][IterNext]_vars

\* ------------------------------------------------ claims on the seed loop
GroupsHolding(f) ==
    {g \in DOMAIN processed_groups : Contains(processed_groups[g].versions, f)}

\* C1: when iterative_analysis has finished, every input file is a member of
\* exactly one group of processed_groups and occurs exactly once in that
\* group's versions list.
C1_PartitionExactlyOnce ==
    it_pc = "done" =>
        \A f \in Range(versions) :
            /\ Cardinality(GroupsHolding(f)) = 1
            /\ \A g \in GroupsHolding(f) : Count(processed_groups[g].versions, f) = 1

EmittedHashes(group_data) ==
    [k \in DOMAIN group_data.sorted_versions |-> group_data.sorted_versions[k].hash]

\* C2: in the report written by iterative_analysis, each group's emitted
\* sorted_versions list is a permutation of the group's versions: every file
\* occurs in it as often as in versions, and its length is versions_count.
C2_SortedIsPermutation ==
    it_pc = "done" =>
        \A g \in DOMAIN processed_groups :
            LET group_data == report[1].version_groups[g] IN
            /\ Len(group_data.sorted_versions) = group_data.versions_count
            /\ \A f \in Range(versions) :
                   Count(EmittedHashes(group_data), f) =
                   Count(processed_groups[g].versions, f)

\* ------------------------------------ the seed loop on pools past the ceiling
\* Pools of up to MaxPool files.  The oracle answers a seed with no match
\* (an empty or out-of-range list, or text that does not parse) or with the
\* first candidate; it answers a comparison with text that does not parse or
\* with an empty files array.
CeilingSeedResponses ==
    {UnparseableSeed} \cup [parses : {TRUE}, similar_files : SeqsUpTo(0..1, 1)]

CeilingComparisonResponses ==
    {UnparseableComparison,
     [parses |-> TRUE, group_misjudged |-> FALSE, files |-> <<>>]}

CeilingInit ==
    /\ versions \in {[i \in 1..n |-> i] : n \in 0..MaxPool}
    /\ remaining_versions = versions
    /\ processed_groups = <<>>
    /\ misjudged = [f \in 1..MaxPool |-> FALSE]
    /\ misjudged_files = <<>>
    /\ iteration = 1
    /\ it_pc = IF versions = <<>> THEN "after_loop" ELSE "loop"
    /\ group_versions = <<>>
    /\ report = None
    /\ seed_calls = 0
    /\ comparison_calls = 0
    /\ RateIdle /\ RetryIdle /\ StreamIdle /\ BatchIdle /\ NormIdle /\ CmpIdle /\ CompareIdle /\ PreviewIdle

CeilingGrouping ==
    /\ it_pc = "loop"
    /\ Candidates(remaining_versions, Head(remaining_versions)) # <<>>
    /\ \E response \in CeilingSeedResponses : SeedGroupingReturns(response)

CeilingComparison ==
    /\ it_pc = "comparing"
    /\ \E response \in CeilingComparisonResponses : ComparisonReturns(response)

CeilingNext ==
    \/ IterNoCandidates
    \/ CeilingGrouping
    \/ CeilingComparison
    \/ IterFinish

SpecCeiling == CeilingInit /\ [][CeilingNext]_vars

\* the oracle has returned no match so far: no group went to comparison
NoMatchSoFar ==
    /\ it_pc # "comparing"
    /\ \A g \in DOMAIN processed_groups : processed_groups[g].analysis_result = None

\* C14: with a pool of 15 files and an oracle that returns zero matches,
\* at most 10 seed-grouping calls are made, the loop stops after the 10th
\* iteration with 10 singleton groups and 5 files left, and the run ends
\* with 15 singleton groups, one per file.
C14_IterationCeiling ==
    (Len(versions) = 15 /\ NoMatchSoFar) =>
        /\ seed_calls <= 10
        /\ iteration <= 11
        /\ it_pc = "after_loop" =>
              /\ iteration = 11
              /\ Len(processed_groups) = 10
              /\ Len(remaining_versions) = 5
        /\ it_pc = "done" =>
              /\ Len(processed_groups) = 15
              /\ \A f \in 1..15 : processed_groups[f].versions = <<f>>

\* The run on 15 files with no match ever returned has ended after 10 calls.
C14_Witness ==
    /\ it_pc = "done"
    /\ Len(versions) = 15
    /\ NoMatchSoFar
    /\ seed_calls = 10
    /\ Len(processed_groups) = 15

\* C15: the loop body runs at most 10 times; an iteration that completes has
\* removed at least its seed from the remaining pool; the loop goes on only
\* while files remain and fewer than 10 iterations have completed, and it
\* stops only when the pool is empty or the 10th iteration has completed.
C15_LoopTermination ==
    /\ [](/\ iteration <= MaxIterations + 1
          /\ it_pc \in {"loop", "comparing"} =>
                remaining_versions # <<>> /\ iteration <= MaxIterations
          /\ it_pc = "after_loop" =>
                remaining_versions = <<>> \/ iteration = MaxIterations + 1)
    /\ [][iteration' = iteration + 1 =>
              /\ ~Contains(remaining_versions', Head(remaining_versions))
              /\ Len(remaining_versions') < Len(remaining_versions)]_vars

\* The 10th iteration has completed with files left over, after iterations
\* that formed groups of two.
C15_Witness ==
    /\ it_pc = "after_loop"
    /\ iteration = MaxIterations + 1
    /\ remaining_versions # <<>>
    /\ \E g \in DOMAIN processed_groups : Len(processed_groups[g].versions) = 2

\* C18: when an oracle call of the loop has failed with an exception, the
\* seed it was made for is in a single-file group (and the run goes on to
\* its report).
C18_OracleFailureSurvived ==
    it_pc = "raised" =>
        \E g \in DOMAIN processed_groups :
            processed_groups[g].versions = <<Head(remaining_versions)>>

\* ----------------------------------------------- compare_versions (main.py)
\* The largest pool compare_versions loads; a file is its position here.
CvNames == <<Notes, Notes2>>

CvFiles == Len(CvNames)

\* the file lists of the groups parse_response returned for a pool
GroupFileLists(names) ==
    {[g \in DOMAIN P.groups |-> P.groups[g].versions] :
        P \in {ParseBatch(r, names) : r \in BatchResponses(Len(names))}}

\* version_groups.json as the grouping step wrote it (main.py 233-262): the
\* groups BatchGroupingAnalyzer.parse_response returned for the pool, file
\* lists as returned
CvLoads ==
    {load \in UNION {[files : {n}, groups : GroupFileLists(SubSeq(CvNames, 1, n))] :
                        n \in 1..CvFiles} :
        Len(load.groups) >= 1 /\ Len(load.groups) <= MaxGroups}

\* VersionGroup(base_name, versions) as the loader builds it (299-304)
LoadedGroup(vs) ==
    [versions |-> vs, sorted_versions |-> None, analysis_result |-> None]

CvFileEntries ==
    [filename : (1..CvFiles) \cup {UnknownName},
     sort_index : {Some(0), Some(1)},
     misjudged : BOOLEAN]

\* what the oracle does when asked to compare a group: the call raises, or it
\* answers with a text that parses or one that does not
CvOracleAnswers ==
    {[raises |-> TRUE, response |-> UnparseableComparison]} \cup
    [raises : {FALSE},
     response : {UnparseableComparison} \cup
                [parses : {TRUE}, group_misjudged : BOOLEAN,
                 files : SeqsUpTo(CvFileEntries, 1)]]

\* analyze_group returning no result whatever the oracle did
AnalyzeGroupLosingResult(answer, vs, flags) == [flags |-> flags, future |-> None]

\* analyze_group (309-330): the analyzer's result, or None when anything
\* raised; the file flags are those parse_response left behind
AnalyzeGroupOutcome(answer, vs, flags) ==
    IF answer.raises THEN [flags |-> flags, future |-> None]
    ELSE LET parsed == ParseComparison(answer.response, vs, flags)
         IN  [flags |-> parsed.flags, future |-> Some(parsed.result)]

\* the body of the as_completed loop (344-351)
StoreResult(group, future) ==
    IF future # None
    THEN [group EXCEPT !.analysis_result = future,
                       !.sorted_versions = Some(future[1].sorted_versions)]
    ELSE [group EXCEPT !.sorted_versions = Some(group.versions)]

\* the misjudged collection over all groups (356-364)
RECURSIVE CollectGroupsMisjudged(_, _)
CollectGroupsMisjudged(acc, groups) ==
    IF groups = <<>> THEN acc
    ELSE LET group == Head(groups)
             acc2 == IF group.analysis_result = None THEN acc
                     ELSE CollectMisjudged(acc,
                              group.analysis_result[1].file_analysis_list)
         IN  CollectGroupsMisjudged(acc2, Tail(groups))

\* version_results (367-407)
CompareReportOf(groups, flags) ==
    LET collected == CollectGroupsMisjudged([flags |-> flags, list |-> <<>>], groups)
    IN  BuildReport(groups, collected.flags, collected.list)

CompareInit ==
    /\ cv_pc = "collecting"
    /\ \E load \in CvLoads :
        /\ cv_groups = [g \in DOMAIN load.groups |-> LoadedGroup(load.groups[g])]
        /\ cv_flags = [f \in 1..load.files |-> FALSE]
    /\ cv_oracle \in [DOMAIN cv_groups -> CvOracleAnswers]
    /\ cv_task = [g \in DOMAIN cv_groups |-> "submitted"]
    /\ cv_future = [g \in DOMAIN cv_groups |-> None]
    /\ cv_report = None
    /\ IterIdle /\ RateIdle /\ RetryIdle /\ StreamIdle /\ BatchIdle /\ NormIdle /\ CmpIdle
    /\ PreviewIdle

\* A pool thread runs analyze_group for one submitted group
CompareAnalyzeGroup ==
    /\ cv_pc = "collecting"
    /\ \E g \in DOMAIN cv_groups :
        /\ cv_task[g] = "submitted"
        /\ LET outcome == AnalyzeGroupOutcome(cv_oracle[g], cv_groups[g].versions,
                                              cv_flags) IN
            /\ cv_flags' = outcome.flags
            /\ cv_future' = [cv_future EXCEPT ![g] = outcome.future]
        /\ cv_task' = [cv_task EXCEPT ![g] = "finished"]
    /\ UNCHANGED <<cv_pc, cv_groups, cv_oracle, cv_report>>
    /\ UNCHANGED notCompare

\* as_completed yields a finished future and the main thread stores its result
CompareCollect ==
    /\ cv_pc = "collecting"
    /\ \E g \in DOMAIN cv_groups :
        /\ cv_task[g] = "finished"
        /\ cv_groups' = [cv_groups EXCEPT ![g] = StoreResult(cv_groups[g], cv_future[g])]
        /\ cv_task' = [cv_task EXCEPT ![g] = "collected"]
    /\ UNCHANGED <<cv_pc, cv_oracle, cv_future, cv_flags, cv_report>>
    /\ UNCHANGED notCompare

\* Every future has been collected: misjudged collection and the report
CompareReport ==
    /\ cv_pc = "collecting"
    /\ \A g \in DOMAIN cv_groups : cv_task[g] = "collected"
    /\ LET collected == CollectGroupsMisjudged([flags |-> cv_flags, list |-> <<>>],
                                               cv_groups) IN
        /\ cv_flags' = collected.flags
        /\ cv_report' = Some(BuildReport(cv_groups, collected.flags, collected.list))
    /\ cv_pc' = "done"
    /\ UNCHANGED <<cv_groups, cv_oracle, cv_task, cv_future>>
    /\ UNCHANGED notCompare

CompareNext == CompareAnalyzeGroup \/ CompareCollect \/ CompareReport

SpecCompare == CompareInit /\ [][CompareNext]_vars

\* -------------------------------------------- claims on compare_versions
\* the comparison of group g failed: the oracle call raised, or its response
\* could not be parsed
ComparisonFailed(g) ==
    \/ cv_oracle[g].raises
    \/ ~cv_oracle[g].response.parses

\* C19: every group whose comparison failed (the oracle call raised, or the
\* response could not be parsed) is in the report, with group_misjudged true.
C19_FailedGroupsSurfaced ==
    cv_pc = "done" =>
        /\ Len(cv_report[1].version_groups) = Len(cv_groups)
        /\ \A g \in DOMAIN cv_groups :
               ComparisonFailed(g) => cv_report[1].version_groups[g].group_misjudged

\* the file flags compare_versions starts from
FreshFlags == [f \in DOMAIN cv_flags |-> FALSE]

\* what the comparison of group g produces, whatever ran before it
OwnResult(g) ==
    AnalyzeGroupOutcome(cv_oracle[g], cv_groups[g].versions, FreshFlags).future

\* the file flags after the workers have run one after another in group order
RECURSIVE FlagsInGroupOrder(_, _)
FlagsInGroupOrder(g, flags) ==
    IF g > Len(cv_groups) THEN flags
    ELSE FlagsInGroupOrder(g + 1,
             AnalyzeGroupOutcome(cv_oracle[g], cv_groups[g].versions, flags).flags)

\* C20: once all workers have finished, each group holds the analysis result
\* and sorted_versions of its own comparison, and the report is the one the
\* same oracle responses give when the workers complete in group order, so
\* the same for every completion order.
C20_ResultReconciliation ==
    cv_pc = "done" =>
        /\ \A g \in DOMAIN cv_groups :
               cv_groups[g] = StoreResult(LoadedGroup(cv_groups[g].versions), OwnResult(g))
        /\ cv_report[1] = CompareReportOf(cv_groups, FlagsInGroupOrder(1, FreshFlags))

\* the first half of C20 alone: each group holds its own comparison's result
EachGroupHoldsOwnResult ==
    cv_pc = "done" =>
        \A g \in DOMAIN cv_groups :
            cv_groups[g] = StoreResult(LoadedGroup(cv_groups[g].versions), OwnResult(g))

\* C19 restricted to responses that could not be parsed
UnparsedGroupsSurfaced ==
    cv_pc = "done" =>
        \A g \in DOMAIN cv_groups :
            (~cv_oracle[g].raises /\ ~cv_oracle[g].response.parses)
                => cv_report[1].version_groups[g].group_misjudged

\* the files whose misjudged field the parse of a response writes: every
\* resolved entry the loop reaches, the one raising included
WrittenFiles(response, vs) ==
    IF ~response.parses THEN {}
    ELSE LET st == CmpLoop([flags |-> [f \in DOMAIN cv_flags |-> FALSE], fal |-> <<>>,
                            sorted |-> <<>>, raised |-> FALSE],
                           response.files, vs, response.group_misjudged)
         IN  {st.fal[k].file : k \in DOMAIN st.fal}

\* the groups whose comparison step has written the misjudged field of file f
FlagWriters(f) ==
    {g \in DOMAIN cv_groups :
        /\ cv_task[g] # "submitted"
        /\ ~cv_oracle[g].raises
        /\ f \in WrittenFiles(cv_oracle[g].response, cv_groups[g].versions)}

\* C21: in the batch pipeline the misjudged field of any one file is written
\* by the comparison step of at most one group.
C21_NoCrossGroupWrite ==
    \A f \in DOMAIN cv_flags : Cardinality(FlagWriters(f)) <= 1

\* ---------------------------------------- further claims on the seed loop
\* the response is unparseable, lists no index, or lists only indices outside
\* 1..n
ListsNoCandidate(response, n) ==
    \/ ~response.parses
    \/ \A k \in DOMAIN response.similar_files :
           response.similar_files[k] < 1 \/ response.similar_files[k] > n

\* the seed-grouping call returns for a response that names no candidate
ZeroMatchStep ==
    /\ it_pc = "loop"
    /\ seed_calls' = seed_calls + 1
    /\ it_pc' # "raised"
    /\ \E response \in SeedResponses(Len(versions)) :
        /\ ListsNoCandidate(response,
               Len(Candidates(remaining_versions, Head(remaining_versions))))
        /\ SeedGroupingReturns(response)

\* C22: when the seed-grouping response is unparseable, lists no index or
\* lists only out-of-range indices, the analyzer returns an empty list, the
\* seed is recorded as a singleton group, only the seed leaves the remaining
\* pool, no comparison call is made, and the loop goes on with the next seed.
C22_ZeroMatchesValid ==
    [][ZeroMatchStep =>
            /\ processed_groups' =
                  Append(processed_groups, SingleGroup(Head(remaining_versions)))
            /\ remaining_versions' = Tail(remaining_versions)
            /\ comparison_calls' = comparison_calls
            /\ it_pc' \in {"loop", "after_loop"}
            /\ it_pc' = "loop" => Head(remaining_versions') = remaining_versions[2]
       ]_vars

\* a zero-match answer has just been handled with files still in the pool
C22_Witness ==
    /\ it_pc = "loop"
    /\ seed_calls = 1
    /\ comparison_calls = 0
    /\ processed_groups = <<SingleGroup(1)>>
    /\ remaining_versions = <<2, 3>>

\* C23: when the comparison of one group raises, compare_versions still
\* writes its report; every group whose comparison did not raise holds its
\* own comparison result, and a group whose comparison raised is reported
\* with its files in their original order.
C23_FailureIsolation ==
    cv_pc = "done" =>
        \A g \in DOMAIN cv_groups :
            IF cv_oracle[g].raises
            THEN /\ cv_groups[g].analysis_result = None
                 /\ EmittedHashes(cv_report[1].version_groups[g]) = cv_groups[g].versions
            ELSE /\ cv_groups[g].analysis_result # None
                 /\ cv_groups[g].analysis_result = OwnResult(g)

\* the report is written after one comparison raised and another succeeded
C23_Witness ==
    /\ cv_pc = "done"
    /\ cv_report # None
    /\ Len(cv_groups) = 2
    /\ cv_oracle[1].raises
    /\ ~cv_oracle[2].raises
    /\ cv_groups[2].analysis_result # None
    /\ cv_groups[2].analysis_result[1].success

\* the recorded groups with more than one member
MultiMemberGroups == {g \in DOMAIN processed_groups : Len(processed_groups[g].versions) > 1}

\* C24: each iteration makes at most one seed-grouping call and at most one
\* comparison call; the comparison analyzer is called exactly once for every
\* group with more than one member and never for a singleton group; and the
\* members of every recorded group are absent from the remaining pool.
C24_OneCallPerGroup ==
    it_pc \in {"loop", "comparing", "after_loop", "done"} =>
        /\ seed_calls <= IF it_pc = "comparing" THEN iteration ELSE iteration - 1
        /\ comparison_calls <= iteration - 1
        /\ comparison_calls = Cardinality(MultiMemberGroups)
        /\ \A g \in DOMAIN processed_groups :
               /\ (processed_groups[g].analysis_result # None) <=> (g \in MultiMemberGroups)
               /\ \A k \in DOMAIN processed_groups[g].versions :
                      ~Contains(remaining_versions, processed_groups[g].versions[k])

\* a compared group and a singleton group have been recorded
C24_Witness ==
    /\ it_pc = "done"
    /\ comparison_calls = 1
    /\ seed_calls = 2
    /\ Len(processed_groups) = 2
    /\ Len(processed_groups[1].versions) = 1
    /\ Len(processed_groups[2].versions) = 2

\* ---------------------------------------- AIAnalysisBase.get_content_preview
\* the no-limit value of preview_length
NoLimit == -1

Ellipsis == <<".", ".", ".">>

\* content[:n] for n >= 0
Prefix(content, n) == SubSeq(content, 1, IF n < Len(content) THEN n ELSE Len(content))

\* get_content_preview (ai_base.py 32-51)
GetContentPreview(content, preview_length) ==
    IF preview_length = NoLimit THEN content
    ELSE IF preview_length = 0 THEN <<>>
    ELSE IF Len(content) > preview_length
    THEN Prefix(content, preview_length) \o Ellipsis
    ELSE content

PreviewInit ==
    /\ pv_pc = "called"
    /\ pv_content \in SeqsUpTo({"a", "b"}, MaxContent)
    /\ pv_length \in {NoLimit} \cup (0..(MaxContent + 1))
    /\ pv_preview = <<>>
    /\ IterIdle /\ RateIdle /\ RetryIdle /\ StreamIdle /\ BatchIdle /\ NormIdle /\ CmpIdle
    /\ CompareIdle

\* build_files_info takes the preview of a file's content (ai_base.py 66)
PreviewReturn ==
    /\ pv_pc = "called"
    /\ pv_preview' = GetContentPreview(pv_content, pv_length)
    /\ pv_pc' = "returned"
    /\ UNCHANGED <<pv_content, pv_length>>
    /\ UNCHANGED notPreview

PreviewNext == PreviewReturn

SpecPreview == PreviewInit /\ [][PreviewNext]_vars

\* C25: the preview has at most preview_length characters when
\* preview_length is positive, is empty when preview_length is 0, and under
\* the no-limit value is no longer than max_content_length.
C25_PreviewBound ==
    pv_pc = "returned" =>
        /\ pv_length > 0 => Len(pv_preview) <= pv_length
        /\ pv_length = 0 => pv_preview = <<>>
        /\ pv_length = NoLimit => Len(pv_preview) <= MaxContentLength

\* the parts of C25 taken one at a time
PreviewWithinLengthPlusEllipsis ==
    pv_pc = "returned" /\ pv_length > 0 => Len(pv_preview) <= pv_length + Len(Ellipsis)

PreviewEmptyAtZero ==
    pv_pc = "returned" /\ pv_length = 0 => pv_preview = <<>>

PreviewGuardedUnderNoLimit ==
    pv_pc = "returned" /\ pv_length = NoLimit => Len(pv_preview) <= MaxContentLength

\* ------------------------------------ the rate limiter with a single caller
\* the calls that have recorded their timestamp
RecordedCalls == Len(issued["batch"]) + Len(issued["iterative"]) + Len(issued["comparison"])

\* the safety half of C26
SingleCallerBound ==
    /\ \A a \in Analyzers : \A i \in DOMAIN issued[a] :
           WindowCount(a, issued[a][i]) <= RpmLimit
    /\ rl_pc[MainThread] = "full" => ~rl_waited[MainThread]
    /\ rl_pc[MainThread] = "idle" => RecordedCalls = rl_calls

\* C26: with a single caller the timestamps recorded on one AIAnalyzer in
\* any rolling 60-second window number at most rpm_limit, and every call
\* eventually records its timestamp, after at most one wait.
C26_SingleCallerRate ==
    /\ []SingleCallerBound
    /\ (rl_pc[MainThread] # "idle") ~> (rl_pc[MainThread] = "idle")

\* a call that found the window full has waited and recorded its timestamp
C26_Witness ==
    /\ rl_pc[MainThread] = "idle"
    /\ Len(issued["iterative"]) = RpmLimit + 1
    /\ issued["iterative"][RpmLimit + 1] - issued["iterative"][1] > Window
    /\ issued["iterative"][RpmLimit] - issued["iterative"][1] < Window
    /\ Len(request_timestamps["iterative"]) = RpmLimit + 1

\* --------------------------------------- further claims on batch grouping
\* C27: for a batch grouping response that parses, every pool file is in at
\* least one returned group, every member of a returned group is a file of
\* the pool, and no returned group is empty.
C27_BatchCoverage ==
    (bg_pc = "done" /\ ~bg_fallback) =>
        /\ \A f \in BatchFiles : BatchGroupsHolding(f) # {}
        /\ \A g \in DOMAIN bg_groups :
               /\ bg_groups[g].versions # <<>>
               /\ Range(bg_groups[g].versions) \subseteq BatchFiles

\* a response naming only the second of three files: the other two were
\* given groups of their own
C27_Witness ==
    /\ bg_pc = "done" /\ ~bg_fallback
    /\ Len(bg_names) = 3
    /\ Len(bg_groups) = 3
    /\ bg_groups[1].versions = <<2>>
    /\ bg_groups[2].versions = <<1>>
    /\ bg_groups[3].versions = <<3>>

\* -------------------------------- further claims on the comparison parse
\* every member of the group is listed once in files, no other entry is
\* there, and the entries carry pairwise distinct sort_index values
ListsMembersOnceDistinct ==
    /\ cp_response.parses
    /\ Len(cp_response.files) = Len(cp_versions)
    /\ \A v \in Range(cp_versions) :
           Cardinality({i \in DOMAIN cp_response.files :
                           cp_response.files[i].filename = v}) = 1
    /\ \A i, j \in DOMAIN cp_response.files :
           i # j => GetSortIndex(cp_response.files[i]) # GetSortIndex(cp_response.files[j])

\* C28: if every group member is listed once in files with pairwise distinct
\* integer sort_index values (0 and negative ones included), sorted_versions
\* of a success=true result holds every member exactly once: no entry
\* overwrites the file placed by an entry with a different sort_index.
C28_DistinctIndicesKeepAll ==
    (cp_pc = "returned" /\ ListsMembersOnceDistinct /\ cp_result.success)
    => \A v \in Range(cp_versions) : Count(cp_result.sorted_versions, v) = 1

\* C28 for sort_index values of 1 or more only
PositiveDistinctIndicesKeepAll ==
    (/\ cp_pc = "returned" /\ ListsMembersOnceDistinct /\ cp_result.success
     /\ \A i \in DOMAIN cp_response.files : GetSortIndex(cp_response.files[i]) >= 1)
    => \A v \in Range(cp_versions) : Count(cp_result.sorted_versions, v) = 1

\* ------------------------------------- claims on the seed loop's report
\* file f appears with misjudged = true in some group's sorted_versions
ReportedMisjudged(f) ==
    \E g \in DOMAIN report[1].version_groups :
        \E k \in DOMAIN report[1].version_groups[g].sorted_versions :
            /\ report[1].version_groups[g].sorted_versions[k].hash = f
            /\ report[1].version_groups[g].sorted_versions[k].misjudged

\* C29: in the report of iterative_analysis a file is listed in
\* misjudged_files if and only if it appears with misjudged = true in some
\* group's sorted_versions, and misjudged_files lists no file twice.
C29_MisjudgedConsistency ==
    it_pc = "done" =>
        /\ \A f \in Range(versions) :
               Contains(report[1].misjudged_files, f) <=> ReportedMisjudged(f)
        /\ \A f \in Range(versions) : Count(report[1].misjudged_files, f) <= 1

\* the parts of C29 taken one at a time
ListedFilesAreReportedMisjudged ==
    it_pc = "done" =>
        \A f \in Range(versions) :
            Contains(report[1].misjudged_files, f) => ReportedMisjudged(f)

ReportedMisjudgedFilesAreListed ==
    it_pc = "done" =>
        \A f \in Range(versions) :
            ReportedMisjudged(f) => Contains(report[1].misjudged_files, f)

MisjudgedFilesListedOnce ==
    it_pc = "done" => \A f \in Range(versions) : Count(report[1].misjudged_files, f) <= 1

\* C30: whenever parse_response returns success = false, the misjudged flag
\* of every file of the group is what it was before the call (False, as
\* CmpInit sets it).
C30_FailedParseChangesNothing ==
    (cp_pc = "returned" /\ ~cp_result.success)
    => \A v \in Range(cp_versions) : cp_flags[v] = FALSE

\* C30 for responses that are not JSON at all
UnparseableChangesNothing ==
    (cp_pc = "returned" /\ ~cp_response.parses)
    => \A v \in Range(cp_versions) : cp_flags[v] = FALSE

====
